---- MODULE Spec2Model ----
(***************************************************************************)
(* Conversation persistence and optimistic send of chatbot9000.            *)
(*                                                                         *)
(* The state is the React state of useChatStore (conversations, isLoading, *)
(* error), the selection of useConversationManager, the ref and the        *)
(* in-flight mutations of useAISendMessage, and the browser's localStorage *)
(* entry 'chatbot9000-conversations'.                                      *)
(*                                                                         *)
(* Scheduling: one action is one event-loop task (a UI event handler, the  *)
(* mount effect, the resolution of a fetch, the expiry of a retry delay)   *)
(* together with the microtasks it starts.  Awaits on localStorage calls   *)
(* resolve in microtasks, so a handler runs to its end (or to the fetch)   *)
(* with the closures of the last committed render, and React re-renders    *)
(* before the next task.  The closures a handler sees are therefore the    *)
(* state at the start of its action.                                       *)
(***************************************************************************)
EXTENDS Integers, Sequences, FiniteSets, TLC

VARIABLES
    conversations,   \* useChatStore: useState<readonly Conversation[]>([])
    isLoading,       \* useChatStore: useState(true)
    error,           \* useChatStore: useState<string | null>(null)
    storage,         \* window.localStorage entry under storageKey
    selectedId,      \* useConversationManager: useState<string>()
    ref,             \* useAISendMessage: currentUserMessageRef.current
    calls,           \* the mutations started by sendToAI, in start order
    now,             \* Date.now(): the clock advances with every send, fetch and delay
    nextId,          \* next id nanoid() hands out
    nextConv,        \* next id generateId() hands out
    ops,             \* number of user operations other than sends so far
    deleted,         \* history: ids of the conversations deleted or cleared so far
    payload,         \* storage service alone: a persisted payload
    loaded,          \* storage service alone: what getConversations reads from it
    resaved,         \* storage service alone: what saveConversations writes back
    ppc,             \* storage service alone: start, loaded, saved
    last,            \* the store alone: the most recent call, its arguments,
                     \* the state it started from and how it ended
    simple           \* useSimpleMessageSending alone: its state, the messages it
                     \* handed to onMessageAdded, and its sendMessage calls

vars == <<conversations, isLoading, error, storage, selectedId, ref, calls, now,
          nextId, nextConv, ops, deleted, payload, loaded, resaved, ppc, last,
          simple>>

mainVars == <<conversations, isLoading, error, storage, selectedId, ref, calls, now,
              nextId, nextConv, ops, deleted>>

pureVars == <<payload, loaded, resaved, ppc, last, simple>>

(***************************************************************************)
(* Bounds of the model.                                                    *)
(***************************************************************************)
MaxConvs == 2
MaxSends == 2
MaxOps == 2
MaxPayloadMsgs == 3
MaxStoreConvs == 3
MaxStoreOps == 2

(***************************************************************************)
(* Program constants.                                                      *)
(***************************************************************************)
MaxMessageLength == 10000
MutationRetry == 1
MaxTitleLength == 100
TitleMax == 50
TitleKeep == 47
EllipsisLength == 3
DefaultTitleLength == 16

NoId == 0
NoError == "null"

(***************************************************************************)
(* Strings.  A string is its leading whitespace, its core and its trailing *)
(* whitespace; only lengths and trimming are observed by the code.         *)
(***************************************************************************)
Str(l, c, t) == [lead |-> l, core |-> c, trail |-> t]

CoreLen(c) ==
    CASE c = "" -> 0
      [] c = "LONG" -> 10001
      [] c = "TITLE60" -> 60
      [] c = "TITLE50" -> 50
      [] c = "TITLE51" -> 51
      [] c = "TITLE100" -> 100
      [] c = "TITLE101" -> 101
      [] c = "hi-" -> 3
      [] OTHER -> 2

Length(s) == s.lead + CoreLen(s.core) + s.trail

Trim(s) == IF CoreLen(s.core) = 0 THEN Str(0, "", 0) ELSE Str(0, s.core, 0)

validateMessage(content) ==
    Length(Trim(content)) > 0 /\ Length(content) <= MaxMessageLength

validateConversationTitle(title) ==
    Length(Trim(title)) > 0 /\ Length(Trim(title)) <= MaxTitleLength

NoInitialMessage == Str(0, "", 0)

\* The characters of a string, as far as a template literal can confuse them:
\* a hyphen is a character of its own, any other run of characters is one token.
Spaces(n) == [i \in 1..n |-> " "]

CoreChars(c) ==
    CASE c = "" -> <<>>
      [] c = "hi-" -> <<"hi", "-">>
      [] OTHER -> <<c>>

Chars(s) == Spaces(s.lead) \o CoreChars(s.core) \o Spaces(s.trail)

\* String(n) of a number
NumChars(n) == IF n < 0 THEN <<"-", ToString(-n)>> ELSE <<ToString(n)>>

\* A title is the literal 'New Conversation' (default), the first `keep`
\* characters of `text` followed by '...' (truncated), or the first `keep`
\* characters of `text` (text).
Substring(s, n) == IF n < Length(s) THEN n ELSE Length(s)

\* a title rule that cuts every message longer than the kept prefix
TitleForEagerCut(initialMessage) ==
    IF Length(initialMessage) > 0
    THEN IF Length(initialMessage) > TitleKeep
         THEN [kind |-> "truncated", text |-> initialMessage,
               keep |-> Substring(initialMessage, TitleKeep)]
         ELSE [kind |-> "text", text |-> initialMessage,
               keep |-> Length(initialMessage)]
    ELSE [kind |-> "default", text |-> NoInitialMessage, keep |-> 0]

TitleFor(initialMessage) ==
    IF Length(initialMessage) > 0
    THEN IF Length(initialMessage) > TitleMax
         THEN [kind |-> "truncated", text |-> initialMessage,
               keep |-> Substring(initialMessage, TitleKeep)]
         ELSE [kind |-> "text", text |-> initialMessage,
               keep |-> Length(initialMessage)]
    ELSE [kind |-> "default", text |-> NoInitialMessage, keep |-> 0]

(***************************************************************************)
(* Dates.  In memory a Date is its instant; in the store it is a string,   *)
(* which names an instant in some format.  JSON.stringify writes the       *)
(* canonical ISO form.                                                     *)
(***************************************************************************)
\* a date written with its day only: the instant within the day is lost
toDateString(t) == [ms |-> 0, fmt |-> "iso"]

toISOString(t) == [ms |-> t, fmt |-> "iso"]

ParseDate(s) == s.ms

(***************************************************************************)
(* Conversations and messages.                                             *)
(***************************************************************************)
NoConv == [id |-> NoId, title |-> TitleFor(NoInitialMessage), messages |-> <<>>,
           createdAt |-> 0, updatedAt |-> 0]

Map(s, F(_)) == [i \in 1..Len(s) |-> F(s[i])]

ConvIds(list) == {list[i].id : i \in 1..Len(list)}

Find(list, id) ==
    IF id \in ConvIds(list)
    THEN list[CHOOSE i \in 1..Len(list) :
                  list[i].id = id /\ \A j \in 1..(i - 1) : list[j].id # id]
    ELSE NoConv

Replace(list, c) == Map(list, LAMBDA x : IF x.id = c.id THEN c ELSE x)

MsgIdsOf(msgs) == {msgs[i].id : i \in 1..Len(msgs)}

AllMsgIds(list) == UNION {MsgIdsOf(list[i].messages) : i \in 1..Len(list)}

(***************************************************************************)
(* LocalStorageService.                                                    *)
(***************************************************************************)
\* `${message.role}-${message.content}-${message.timestamp.getTime()}`
MessageKey(m) ==
    <<m.role, "-">> \o Chars(m.content) \o <<"-">> \o NumChars(m.timestamp)

RECURSIVE DedupLoop(_, _, _, _)
DedupLoop(messages, i, seen, deduplicated) ==
    IF i > Len(messages) THEN deduplicated
    ELSE IF MessageKey(messages[i]) \in seen
         THEN DedupLoop(messages, i + 1, seen, deduplicated)
         ELSE DedupLoop(messages, i + 1, seen \cup {MessageKey(messages[i])},
                        Append(deduplicated, messages[i]))

deduplicateMessages(messages) == DedupLoop(messages, 1, {}, <<>>)

ReviveMessage(m) == [m EXCEPT !.timestamp = ParseDate(@)]

ReviveConversation(conv) ==
    [conv EXCEPT !.createdAt = ParseDate(@),
                 !.updatedAt = ParseDate(@),
                 !.messages = deduplicateMessages(Map(@, ReviveMessage))]

\* JSON.parse throws on these entries
ParseThrows(st) == st.kind = "notJson"

\* the parsed value is no list of records with a messages array: .map throws
MapThrows(st) == st.kind \in {"notArray", "noMessages"}

\* getConversations without its try/catch: a failure to parse escapes
getConversationsNoCatch(st) ==
    IF st.kind \in {"absent", "empty"} THEN [threw |-> FALSE, value |-> <<>>]
    ELSE IF ParseThrows(st) \/ MapThrows(st) THEN [threw |-> TRUE, value |-> <<>>]
    ELSE [threw |-> FALSE, value |-> Map(st.value, ReviveConversation)]

getConversations(st) ==
    IF st.kind \in {"absent", "empty"} THEN [threw |-> FALSE, value |-> <<>>]
    ELSE IF ParseThrows(st) \/ MapThrows(st) THEN [threw |-> FALSE, value |-> <<>>]
    ELSE [threw |-> FALSE, value |-> Map(st.value, ReviveConversation)]

Stored(st) == getConversations(st).value

StringifyMessage(m) == [m EXCEPT !.timestamp = toISOString(@)]

StringifyConversation(conv) ==
    [conv EXCEPT !.createdAt = toISOString(@),
                 !.updatedAt = toISOString(@),
                 !.messages = Map(@, StringifyMessage)]

saveConversations(list) == [kind |-> "json", value |-> Map(list, StringifyConversation)]

\* StorageService (services/storage.ts), the storage class beside
\* LocalStorageService: the same transforms without the dedup step.
transformStoredConversations(stored) ==
    Map(stored, LAMBDA conv : [conv EXCEPT !.createdAt = ParseDate(@),
                                           !.updatedAt = ParseDate(@),
                                           !.messages = Map(@, ReviveMessage)])

transformConversationsForStorage(list) == Map(list, StringifyConversation)

StorageService_getConversations(st) ==
    IF st.kind \in {"absent", "empty"} THEN <<>>
    ELSE IF ParseThrows(st) \/ MapThrows(st) THEN <<>>
    ELSE transformStoredConversations(st.value)

StorageService_saveConversations(list) ==
    [kind |-> "json", value |-> transformConversationsForStorage(list)]

Absent == [kind |-> "absent", value |-> <<>>]

\* a clear that writes an empty list under the key
clearConversationsEmptyList == saveConversations(<<>>)

clearConversations == Absent

\* [conv, st]: the new conversation and the store after the write
createConversationInStorage(initialMessage, id, st, t) ==
    LET conversation == [id |-> id, title |-> TitleFor(initialMessage),
                         messages |-> <<>>, createdAt |-> t, updatedAt |-> t]
    IN [conv |-> conversation,
        st |-> saveConversations(<<conversation>> \o Stored(st))]

\* [found, conv, st]
updateConversationTitleInStorage(id, title, st, t) ==
    LET list == Stored(st)
        conversation == Find(list, id)
        updatedConversation == [conversation EXCEPT
                                   !.title = [kind |-> "text", text |-> Trim(title),
                                              keep |-> Length(Trim(title))],
                                   !.updatedAt = t]
    IN IF conversation = NoConv
       THEN [found |-> FALSE, conv |-> NoConv, st |-> st]
       ELSE [found |-> TRUE, conv |-> updatedConversation,
             st |-> saveConversations(Replace(list, updatedConversation))]

deleteConversationInStorage(id, st) ==
    saveConversations(SelectSeq(Stored(st), LAMBDA c : c.id # id))

\* [found, conv, st]
removeMessageFromConversation(conversationId, messageId, st, t) ==
    LET list == Stored(st)
        conversation == Find(list, conversationId)
        updatedConversation == [conversation EXCEPT
                                   !.messages = SelectSeq(@, LAMBDA m : m.id # messageId),
                                   !.updatedAt = t]
    IN IF conversation = NoConv
       THEN [found |-> FALSE, conv |-> NoConv, st |-> st]
       ELSE [found |-> TRUE, conv |-> updatedConversation,
             st |-> saveConversations(Replace(list, updatedConversation))]

(***************************************************************************)
(* useChatStore mutators, as functions of the in-memory list `mem`, the    *)
(* store `st` and, for updateConversation, the list `closure` its          *)
(* useCallback captured.  Each returns the new [mem, st].                  *)
(***************************************************************************)
createConversation(initialMessage, id, mem, st, t) ==
    LET r == createConversationInStorage(initialMessage, id, st, t)
    IN [conv |-> r.conv, mem |-> <<r.conv>> \o mem, st |-> r.st]

updateConversation(updatedConv, closure, mem, st) ==
    [mem |-> Replace(mem, updatedConv),
     st |-> saveConversations(Replace(closure, updatedConv))]

\* a rename that lets an unknown id pass in silence
updateConversationTitleSilent(id, title, mem, st, t) ==
    LET r == updateConversationTitleInStorage(id, title, st, t)
    IN IF r.found
       THEN [mem |-> Replace(mem, r.conv), st |-> r.st, err |-> NoError]
       ELSE [mem |-> mem, st |-> st, err |-> NoError]

updateConversationTitle(id, title, mem, st, t) ==
    LET r == updateConversationTitleInStorage(id, title, st, t)
    IN IF r.found
       THEN [mem |-> Replace(mem, r.conv), st |-> r.st, err |-> NoError]
       ELSE [mem |-> mem, st |-> st, err |-> "Conversation not found"]

\* a delete that drops the newest conversation whatever the id
deleteConversationNewest(id, mem, st) ==
    [mem |-> IF mem = <<>> THEN mem ELSE Tail(mem),
     st |-> saveConversations(IF Stored(st) = <<>> THEN <<>> ELSE Tail(Stored(st)))]

deleteConversation(id, mem, st) ==
    [mem |-> SelectSeq(mem, LAMBDA c : c.id # id),
     st |-> deleteConversationInStorage(id, st)]

removeMessage(conversationId, messageId, mem, st, t) ==
    LET r == removeMessageFromConversation(conversationId, messageId, st, t)
    IN IF r.found
       THEN [mem |-> Replace(mem, r.conv), st |-> r.st]
       ELSE [mem |-> mem, st |-> st]

(***************************************************************************)
(* The same mutators when window.localStorage.setItem may throw (`quota`). *)
(* saveConversations logs and rethrows; in every mutator the write comes   *)
(* before setConversations inside one try block, and the catch block sets  *)
(* the error state.  Each returns [mem, st, err, threw, conv]: the list,   *)
(* the store, the error state, whether the call rejects, and the           *)
(* conversation it resolves with (NoConv when it has none).                *)
(***************************************************************************)
WriteError == "QuotaExceededError"

Outcome(mem, st, err, threw, conv) ==
    [mem |-> mem, st |-> st, err |-> err, threw |-> threw, conv |-> conv]

tryCreateConversation(initialMessage, id, mem, st, t, err, quota) ==
    LET r == createConversation(initialMessage, id, mem, st, t)
    IN IF quota
       THEN Outcome(mem, st, WriteError, TRUE, NoConv)
       ELSE Outcome(r.mem, r.st, err, FALSE, r.conv)

tryUpdateConversation(updatedConv, closure, mem, st, err, quota) ==
    LET r == updateConversation(updatedConv, closure, mem, st)
    IN IF quota
       THEN Outcome(mem, st, WriteError, FALSE, NoConv)
       ELSE Outcome(r.mem, r.st, err, FALSE, NoConv)

tryUpdateConversationTitle(id, title, mem, st, t, err, quota) ==
    LET r == updateConversationTitle(id, title, mem, st, t)
    IN IF r.err # NoError
       THEN Outcome(mem, st, r.err, FALSE, NoConv)
       ELSE IF quota
            THEN Outcome(mem, st, WriteError, FALSE, NoConv)
            ELSE Outcome(r.mem, r.st, err, FALSE, NoConv)

tryDeleteConversation(id, mem, st, err, quota) ==
    LET r == deleteConversation(id, mem, st)
    IN IF quota
       THEN Outcome(mem, st, WriteError, FALSE, NoConv)
       ELSE Outcome(r.mem, r.st, err, FALSE, NoConv)

\* removeItem does not write a value, so it has no quota to exceed
clearHistory(err) == Outcome(<<>>, clearConversations, err, FALSE, NoConv)

tryRemoveMessage(conversationId, messageId, mem, st, t, err, quota) ==
    LET r == removeMessage(conversationId, messageId, mem, st, t)
    IN IF Find(Stored(st), conversationId) # NoConv /\ quota
       THEN Outcome(mem, st, WriteError, FALSE, NoConv)
       ELSE Outcome(r.mem, r.st, err, FALSE, NoConv)

(***************************************************************************)
(* ChatApiService, the service over the same localStorage entry that also  *)
(* talks to the backend.  storeConversations logs a failed write and       *)
(* carries on.  createConversation appends, and with an initial message    *)
(* it calls sendMessage, which asks the backend (`ok`: the request         *)
(* succeeds) and stores the reply in the new conversation.                 *)
(* [st, threw, conv, fetches, nid]                                         *)
(***************************************************************************)
storeConversations(list, st, quota) == IF quota THEN st ELSE saveConversations(list)

ChatApiService_sendMessage(content, conversationId, response, nid, st, t, quota) ==
    LET list == Stored(st)
        conversation == Find(list, conversationId)
        aiMessage == [id |-> nid, content |-> response, role |-> "assistant",
                      timestamp |-> t]
        updated == [conversation EXCEPT !.messages = Append(@, aiMessage),
                                        !.updatedAt = t]
    IN IF conversation = NoConv
       THEN st
       ELSE storeConversations(Replace(list, updated), st, quota)

ChatApiService_createConversation(initialMessage, id, response, nid, st, t, ok, quota) ==
    LET conversation == [id |-> id, title |-> TitleFor(initialMessage),
                         messages |-> <<>>, createdAt |-> t, updatedAt |-> t]
        stored == storeConversations(Append(Stored(st), conversation), st, quota)
        sent == ChatApiService_sendMessage(initialMessage, id, response, nid,
                                           stored, t, quota)
        updated == Find(Stored(sent), id)
    IN IF Length(initialMessage) > 0
       THEN IF ok
            THEN [st |-> sent, threw |-> FALSE,
                  conv |-> IF updated # NoConv THEN updated ELSE conversation,
                  fetches |-> 1, nid |-> nid + 1]
            ELSE [st |-> stored, threw |-> TRUE, conv |-> NoConv,
                  fetches |-> 1, nid |-> nid]
       ELSE [st |-> stored, threw |-> FALSE, conv |-> conversation,
             fetches |-> 0, nid |-> nid]

(***************************************************************************)
(* useConversationManager.                                                 *)
(***************************************************************************)
SelectedConversation(sid, list) == IF sid = NoId THEN NoConv ELSE Find(list, sid)

\* an append that stamps the conversation with the epoch
addToConversationEpochStamp(message, selectedConversation, closure, mem, st, t) ==
    IF selectedConversation # NoConv
    THEN updateConversation([selectedConversation EXCEPT
                                !.messages = Append(@, message),
                                !.updatedAt = 0],
                            closure, mem, st)
    ELSE [mem |-> mem, st |-> st]

addToConversation(message, selectedConversation, closure, mem, st, t) ==
    IF selectedConversation # NoConv
    THEN updateConversation([selectedConversation EXCEPT
                                !.messages = Append(@, message),
                                !.updatedAt = t],
                            closure, mem, st)
    ELSE [mem |-> mem, st |-> st]

(***************************************************************************)
(* useAISendMessage.  A world w is [mem, st, ref, nid]: the in-memory      *)
(* list, the store, currentUserMessageRef.current and the next nanoid.     *)
(***************************************************************************)
World(mem, st, r, nid) == [mem |-> mem, st |-> st, ref |-> r, nid |-> nid]

\* mutationFn giving the user message an id that the next message gets again
mutationFnReusedId(content, selectedConversation, closure, w, t) ==
    IF ~validateMessage(content)
    THEN [threw |-> TRUE, w |-> w, msg |-> NoId]
    ELSE LET userMessage == [id |-> w.nid, content |-> Trim(content),
                             role |-> "user", timestamp |-> t]
             r == addToConversation(userMessage, selectedConversation, closure,
                                    w.mem, w.st, t)
         IN [threw |-> FALSE,
             w |-> World(r.mem, r.st, userMessage.id, w.nid),
             msg |-> userMessage.id]

\* one run of mutationFn up to the fetch: [threw, w, msg]
mutationFn(content, selectedConversation, closure, w, t) ==
    IF ~validateMessage(content)
    THEN [threw |-> TRUE, w |-> w, msg |-> NoId]
    ELSE LET userMessage == [id |-> w.nid, content |-> Trim(content),
                             role |-> "user", timestamp |-> t]
             r == addToConversation(userMessage, selectedConversation, closure,
                                    w.mem, w.st, t)
         IN [threw |-> FALSE,
             w |-> World(r.mem, r.st, userMessage.id, w.nid + 1),
             msg |-> userMessage.id]

\* the rest of mutationFn after a successful fetch, then onSuccess
onSuccess(response, selectedConversation, closure, w, t) ==
    LET aiMessage == [id |-> w.nid, content |-> response,
                      role |-> "assistant", timestamp |-> t]
        r == addToConversation(aiMessage, selectedConversation, closure,
                               w.mem, w.st, t)
    IN World(r.mem, r.st, NoId, w.nid + 1)

\* an onError that leaves the tracked message id in place
onErrorKeepsRef(selectedConversation, w, t) ==
    IF w.ref # NoId /\ selectedConversation # NoConv
    THEN LET r == removeMessage(selectedConversation.id, w.ref, w.mem, w.st, t)
         IN World(r.mem, r.st, w.ref, w.nid)
    ELSE World(w.mem, w.st, w.ref, w.nid)

onError(selectedConversation, w, t) ==
    IF w.ref # NoId /\ selectedConversation # NoConv
    THEN LET r == removeMessage(selectedConversation.id, w.ref, w.mem, w.st, t)
         IN World(r.mem, r.st, NoId, w.nid)
    ELSE World(w.mem, w.st, NoId, w.nid)

(***************************************************************************)
(* The record of one sendToAI(content) call: the mutation's own state      *)
(* (content, pc, failureCount, its options' closures) and the history the  *)
(* properties read (target, pre, mine, fetches, aiMsg, post...).           *)
(***************************************************************************)
Pending(c) == c.pc \in {"fetching", "retryWait"}

\* the options the mutation runs with: those of the latest render while it is
\* the observer's current mutation, those of the render before the next
\* mutate() once it is superseded
ClosureSel(c) == IF c.current THEN SelectedConversation(selectedId, conversations)
                 ELSE c.fSel

ClosureConvs(c) == IF c.current THEN conversations ELSE c.fConvs

Settle(c, outcome, w) ==
    [c EXCEPT !.pc = "done",
              !.outcome = outcome,
              !.current = FALSE,
              !.fSel = NoConv,
              !.fConvs = <<>>,
              !.post = Find(w.mem, c.target).messages,
              !.postStored = Find(Stored(w.st), c.target).messages]

\* A call that is over keeps its history for the one state that follows its last
\* step; after that only its outcome is kept.
Forget(c) ==
    IF Pending(c) THEN c
    ELSE [c EXCEPT !.failureCount = 0, !.current = FALSE, !.fSel = NoConv,
                   !.fConvs = <<>>, !.startedAt = 0, !.hadSel = FALSE,
                   !.target = NoId, !.created = NoId, !.pre = <<>>, !.mine = <<>>,
                   !.fetches = 0, !.aiMsg = NoId, !.reply = NoInitialMessage,
                   !.post = <<>>, !.postStored = <<>>, !.interfered = FALSE,
                   !.overlapped = FALSE]

Tidy(cs) == Map(cs, Forget)

\* the retryer after a failed attempt: [call, w]
Fail(c, selectedConversation, w, t) ==
    IF c.failureCount < MutationRetry
    THEN [call |-> [c EXCEPT !.pc = "retryWait", !.failureCount = @ + 1], w |-> w]
    ELSE LET w2 == onError(selectedConversation, w, t)
         IN [call |-> Settle(c, "error", w2), w |-> w2]

\* the attempt's outcome applied to the call: [call, w]
AfterAttempt(c, a, selectedConversation, t) ==
    IF a.threw
    THEN Fail(c, selectedConversation, a.w, t)
    ELSE [call |-> [c EXCEPT !.pc = "fetching",
                             !.mine = Append(@, a.msg),
                             !.fetches = @ + 1,
                             !.startedAt = t],
          w |-> a.w]

Disturb(cs) ==
    Map(cs, LAMBDA c : IF Pending(c) THEN [c EXCEPT !.interfered = TRUE] ELSE Forget(c))

Supersede(cs, sel, list) ==
    Map(cs, LAMBDA c : IF Pending(c)
                       THEN [c EXCEPT !.current = FALSE,
                                      !.fSel = IF c.current THEN sel ELSE @,
                                      !.fConvs = IF c.current THEN list ELSE @,
                                      !.interfered = TRUE,
                                      !.overlapped = TRUE]
                       ELSE Forget(c))

(***************************************************************************)
(* Inputs.                                                                 *)
(***************************************************************************)
Hi == Str(1, "hi", 1)
Blank == Str(1, "", 1)
Long == Str(0, "LONG", 0)
Inputs == {Hi, Blank, Long}
Replies == {Str(0, "ok", 0)}
Titles == {Str(1, "T", 1), Blank}
CorruptEntries == {[kind |-> k, value |-> <<>>] : k \in {"empty", "notJson", "notArray", "noMessages"}}

(***************************************************************************)
(* Actions.                                                                *)
(***************************************************************************)
NoCall == [op |-> "none", id |-> NoId, mid |-> NoId, given |-> FALSE,
           text |-> NoInitialMessage, quota |-> FALSE, mem |-> <<>>,
           st |-> Absent, err |-> NoError, at |-> 0, threw |-> FALSE,
           conv |-> NoConv, fetches |-> 0, prev |-> "none"]

ParkedStore == last = NoCall

\* useSimpleMessageSending as it is mounted: useState(false), useState(null),
\* nothing handed to onMessageAdded yet
NoSimple == [isPending |-> FALSE, error |-> NoError, added |-> <<>>, sends |-> <<>>,
             nid |-> 1, now |-> 0]

ParkedSimple == simple = NoSimple

ParkedPure == /\ payload = Absent
              /\ loaded = <<>>
              /\ resaved = Absent
              /\ ppc = "off"

Init ==
    /\ conversations = <<>>
    /\ isLoading = TRUE
    /\ error = NoError
    /\ storage \in {Absent} \cup CorruptEntries
    /\ selectedId = NoId
    /\ ref = NoId
    /\ calls = <<>>
    /\ now = 0
    /\ nextId = 1
    /\ nextConv = 1
    /\ ops = 0
    /\ deleted = {}
    /\ ParkedPure
    /\ ParkedStore
    /\ ParkedSimple

\* useChatStore's mount effect
Load ==
    /\ isLoading
    /\ LET r == getConversations(storage)
       IN /\ conversations' = IF r.threw THEN conversations ELSE r.value
          /\ error' = IF r.threw THEN "Failed to load" ELSE NoError
    /\ isLoading' = FALSE
    /\ UNCHANGED <<storage, selectedId, ref, calls, now, nextId, nextConv, ops>>
    /\ UNCHANGED pureVars
    /\ UNCHANGED deleted

\* the page is reloaded: the JavaScript state is lost, the store is kept
Reload ==
    /\ ~isLoading
    /\ ops < MaxOps
    /\ ops' = ops + 1
    /\ conversations' = <<>>
    /\ isLoading' = TRUE
    /\ error' = NoError
    /\ selectedId' = NoId
    /\ ref' = NoId
    /\ calls' = Map(calls, LAMBDA c : Forget([c EXCEPT !.pc = "dead"]))
    /\ UNCHANGED <<storage, now, nextId, nextConv>>
    /\ UNCHANGED pureVars
    /\ UNCHANGED deleted

handleNewChat ==
    /\ ~isLoading
    /\ ops < MaxOps
    /\ ops' = ops + 1
    /\ nextConv <= MaxConvs
    /\ LET r == createConversation(NoInitialMessage, nextConv, conversations, storage, now)
       IN /\ conversations' = r.mem
          /\ storage' = r.st
          /\ selectedId' = r.conv.id
    /\ nextConv' = nextConv + 1
    /\ calls' = Disturb(calls)
    /\ UNCHANGED <<isLoading, error, ref, now, nextId>>
    /\ UNCHANGED pureVars
    /\ UNCHANGED deleted

handleSelectConversation(id) ==
    /\ ~isLoading
    /\ id \in ConvIds(conversations)
    /\ id # selectedId
    /\ ops < MaxOps
    /\ ops' = ops + 1
    /\ selectedId' = id
    /\ calls' = Disturb(calls)
    /\ UNCHANGED <<conversations, isLoading, error, storage, ref, now, nextId,
                   nextConv>>
    /\ UNCHANGED pureVars
    /\ UNCHANGED deleted

handleRenameConversation(id, newTitle) ==
    /\ ~isLoading
    /\ ops < MaxOps
    /\ ops' = ops + 1
    /\ LET r == updateConversationTitle(id, newTitle, conversations, storage, now)
       IN /\ conversations' = r.mem
          /\ storage' = r.st
          /\ error' = IF r.err = NoError THEN error ELSE r.err
    /\ calls' = Disturb(calls)
    /\ UNCHANGED <<isLoading, selectedId, ref, now, nextId, nextConv>>
    /\ UNCHANGED pureVars
    /\ UNCHANGED deleted

\* a delete handler that never touches the selection
handleDeleteConversationKeepsSelection(id) ==
    /\ ~isLoading
    /\ id \in ConvIds(conversations)
    /\ ops < MaxOps
    /\ ops' = ops + 1
    /\ LET r == deleteConversation(id, conversations, storage)
       IN /\ conversations' = r.mem
          /\ storage' = r.st
    /\ calls' = Disturb(calls)
    /\ deleted' = deleted \cup {id}
    /\ UNCHANGED <<isLoading, error, selectedId, ref, now, nextId, nextConv>>
    /\ UNCHANGED pureVars

handleDeleteConversation(id) ==
    /\ ~isLoading
    /\ id \in ConvIds(conversations)
    /\ ops < MaxOps
    /\ ops' = ops + 1
    /\ selectedId' = IF selectedId = id THEN NoId ELSE selectedId
    /\ LET r == deleteConversation(id, conversations, storage)
       IN /\ conversations' = r.mem
          /\ storage' = r.st
    /\ calls' = Disturb(calls)
    /\ deleted' = deleted \cup {id}
    /\ UNCHANGED <<isLoading, error, ref, now, nextId, nextConv>>
    /\ UNCHANGED pureVars

handleClearHistory ==
    /\ ~isLoading
    /\ conversations # <<>>
    /\ ops < MaxOps
    /\ ops' = ops + 1
    /\ selectedId' = NoId
    /\ storage' = clearConversations
    /\ conversations' = <<>>
    /\ calls' = Disturb(calls)
    /\ deleted' = deleted \cup ConvIds(conversations) \cup ConvIds(Stored(storage))
    /\ UNCHANGED <<isLoading, error, ref, now, nextId, nextConv>>
    /\ UNCHANGED pureVars

\* handleSendMessage.  With no conversation selected it creates one, selects it
\* and calls sendToAI in the same task; whether React has re-rendered (and the
\* mutation taken the new render's callbacks) by the time mutationFn runs
\* depends on the priority React gives the updates: flushed tells which.
handleSendMessage(content, flushed) ==
    /\ ~isLoading
    /\ Len(calls) < MaxSends
    /\ LET sel == SelectedConversation(selectedId, conversations)
           create == sel = NoConv
           made == createConversation(content, nextConv, conversations, storage, now)
           w0 == IF create THEN World(made.mem, made.st, ref, nextId)
                 ELSE World(conversations, storage, ref, nextId)
           seen == IF flushed THEN made.conv ELSE sel
           list == IF flushed THEN made.mem ELSE conversations
           a == mutationFn(content, seen, list, w0, now)
           c0 == [content |-> content, valid |-> validateMessage(content),
                  pc |-> "fetching", failureCount |-> 0, current |-> TRUE,
                  fSel |-> NoConv, fConvs |-> <<>>, startedAt |-> now,
                  hadSel |-> ~create,
                  target |-> seen.id,
                  created |-> IF create THEN made.conv.id ELSE NoId,
                  pre |-> seen.messages, mine |-> <<>>, fetches |-> 0,
                  aiMsg |-> NoId, reply |-> NoInitialMessage, outcome |-> "pending",
                  post |-> <<>>, postStored |-> <<>>,
                  interfered |-> \E i \in 1..Len(calls) : Pending(calls[i]),
                  overlapped |-> \E i \in 1..Len(calls) : Pending(calls[i])]
           r == AfterAttempt(c0, a, seen, now)
       IN /\ flushed => create
          /\ create => nextConv <= MaxConvs
          /\ nextConv' = IF create THEN nextConv + 1 ELSE nextConv
          /\ selectedId' = IF create THEN made.conv.id ELSE selectedId
          /\ conversations' = r.w.mem
          /\ storage' = r.w.st
          /\ ref' = r.w.ref
          /\ nextId' = r.w.nid
          /\ calls' = Append(Supersede(calls, sel, list), r.call)
    /\ now' = now + 1
    /\ UNCHANGED <<isLoading, error, ops>>
    /\ UNCHANGED pureVars
    /\ UNCHANGED deleted

\* the fetch of call k resolves
AIResolve(k, ok, response) ==
    /\ k \in 1..Len(calls)
    /\ calls[k].pc = "fetching"
    /\ LET c == calls[k]
           w0 == World(conversations, storage, ref, nextId)
           w1 == onSuccess(response, ClosureSel(c), ClosureConvs(c), w0, now)
           r == IF ok
                THEN [call |-> Settle([c EXCEPT !.aiMsg = nextId, !.reply = response],
                                      "success", w1),
                      w |-> w1]
                ELSE Fail(c, ClosureSel(c), w0, now)
       IN /\ conversations' = r.w.mem
          /\ storage' = r.w.st
          /\ ref' = r.w.ref
          /\ nextId' = r.w.nid
          /\ calls' = [Tidy(calls) EXCEPT ![k] = r.call]
    /\ now' = now + 1
    /\ UNCHANGED <<isLoading, error, selectedId, nextConv, ops>>
    /\ UNCHANGED pureVars
    /\ UNCHANGED deleted

\* the retry delay of call k expires: mutationFn runs again
Retry(k) ==
    /\ k \in 1..Len(calls)
    /\ calls[k].pc = "retryWait"
    /\ now > calls[k].startedAt
    /\ LET c == calls[k]
           w0 == World(conversations, storage, ref, nextId)
           a == mutationFn(c.content, ClosureSel(c), ClosureConvs(c), w0, now)
           r == AfterAttempt(c, a, ClosureSel(c), now)
       IN /\ conversations' = r.w.mem
          /\ storage' = r.w.st
          /\ ref' = r.w.ref
          /\ nextId' = r.w.nid
          /\ calls' = [Tidy(calls) EXCEPT ![k] = r.call]
    /\ now' = now + 1
    /\ UNCHANGED <<isLoading, error, selectedId, nextConv, ops>>
    /\ UNCHANGED pureVars
    /\ UNCHANGED deleted

Next ==
    \/ Load
    \/ Reload
    \/ handleNewChat
    \/ \E id \in 1..MaxConvs : handleSelectConversation(id)
    \/ \E id \in 1..MaxConvs, t \in Titles : handleRenameConversation(id, t)
    \/ \E id \in 1..MaxConvs : handleDeleteConversation(id)
    \/ handleClearHistory
    \/ \E content \in Inputs, flushed \in BOOLEAN : handleSendMessage(content, flushed)
    \/ \E k \in 1..MaxSends, ok \in BOOLEAN, response \in Replies : AIResolve(k, ok, response)
    \/ \E k \in 1..MaxSends : Retry(k)

Spec == Init /\ [][Next]_vars

\* mutation.isPending, as the observer reports it: the state of its current
\* mutation
isPending == \E k \in 1..Len(calls) : calls[k].current /\ Pending(calls[k])

\* The backend answers every request, well or badly, and the retry timer of
\* the mutation fires: one step of a send in flight.
Progress ==
    \/ \E k \in 1..MaxSends, ok \in BOOLEAN, response \in Replies :
          AIResolve(k, ok, response)
    \/ \E k \in 1..MaxSends : Retry(k)

\* A Progress step is possible exactly when a send is in flight: its fetch is
\* outstanding, or its retry delay is running and the clock has passed the
\* instant of the failed attempt.
ProgressEnabled == \E k \in 1..Len(calls) : Pending(calls[k])

\* Weak fairness of Progress, WF_vars(Progress), with its enabling condition
\* written out: either no send is in flight infinitely often, or Progress
\* steps keep happening.
Fairness == []<>(~ProgressEnabled) \/ []<><<Progress>>_vars

LiveSpec == Spec /\ Fairness

(***************************************************************************)
(* The storage service alone: a persisted payload is read by               *)
(* getConversations and written back by saveConversations.                 *)
(***************************************************************************)
SeqsUpTo(S, n) == UNION {[1..k -> S] : k \in 0..n}

\* stored date strings: the same instant in two formats, and an instant before
\* the epoch
StoredStamps == {[ms |-> 1, fmt |-> "iso"], [ms |-> 1, fmt |-> "offset"],
                 [ms |-> -1, fmt |-> "iso"]}

\* stored messages, before their ids
StoredMessages ==
    [content : {Str(0, "hi", 0), Str(0, "hi-", 0)},
     role : {"user", "assistant"}, timestamp : StoredStamps]

\* a stored conversation of these messages, each with an id of its own
StoredConv(msgs) ==
    [id |-> 1, title |-> TitleFor(Str(0, "hi", 0)),
     messages |-> [i \in 1..Len(msgs) |->
                      [id |-> i, content |-> msgs[i].content, role |-> msgs[i].role,
                       timestamp |-> msgs[i].timestamp]],
     createdAt |-> [ms |-> 0, fmt |-> "offset"], updatedAt |-> [ms |-> 1, fmt |-> "iso"]]

OtherStoredConv ==
    [id |-> 2, title |-> TitleFor(NoInitialMessage), messages |-> <<>>,
     createdAt |-> [ms |-> 1, fmt |-> "iso"], updatedAt |-> [ms |-> 1, fmt |-> "iso"]]

Payloads ==
    {[kind |-> "json", value |-> <<>>]}
    \cup {[kind |-> "json", value |-> <<StoredConv(m)>>] : m \in SeqsUpTo(StoredMessages, MaxPayloadMsgs)}
    \cup {[kind |-> "json", value |-> <<StoredConv(m), OtherStoredConv>>] : m \in SeqsUpTo(StoredMessages, MaxPayloadMsgs)}
    \cup {[kind |-> "json", value |-> <<OtherStoredConv, StoredConv(m)>>] : m \in SeqsUpTo(StoredMessages, MaxPayloadMsgs)}

ParkedMain ==
    /\ conversations = <<>>
    /\ isLoading = TRUE
    /\ error = NoError
    /\ storage = Absent
    /\ selectedId = NoId
    /\ ref = NoId
    /\ calls = <<>>
    /\ now = 0
    /\ nextId = 1
    /\ nextConv = 1
    /\ ops = 0
    /\ deleted = {}

PureInit ==
    /\ ParkedMain
    /\ ParkedStore
    /\ ParkedSimple
    /\ payload \in Payloads
    /\ loaded = <<>>
    /\ resaved = Absent
    /\ ppc = "start"

PureLoad ==
    /\ ppc = "start"
    /\ loaded' = getConversations(payload).value
    /\ ppc' = "loaded"
    /\ UNCHANGED <<payload, resaved, last, simple>>
    /\ UNCHANGED mainVars

PureSave ==
    /\ ppc = "loaded"
    /\ resaved' = saveConversations(loaded)
    /\ ppc' = "saved"
    /\ UNCHANGED <<payload, loaded, last, simple>>
    /\ UNCHANGED mainVars

ServiceLoad ==
    /\ ppc = "start"
    /\ loaded' = StorageService_getConversations(payload)
    /\ ppc' = "svcLoaded"
    /\ UNCHANGED <<payload, resaved, last, simple>>
    /\ UNCHANGED mainVars

ServiceSave ==
    /\ ppc = "svcLoaded"
    /\ resaved' = StorageService_saveConversations(loaded)
    /\ ppc' = "svcSaved"
    /\ UNCHANGED <<payload, loaded, last, simple>>
    /\ UNCHANGED mainVars

PureNext == PureLoad \/ PureSave \/ ServiceLoad \/ ServiceSave

PureSpec == PureInit /\ [][PureNext]_vars

(***************************************************************************)
(* The store alone: useChatStore after its mount effect, holding a list    *)
(* that earlier calls left behind, and a caller invoking its mutators one  *)
(* after the other, each call awaited.  Every call is recorded in `last`   *)
(* with the state it started from.  setItem may fail on any call.          *)
(***************************************************************************)
SeedMessage(id, role) ==
    [id |-> id, content |-> Str(0, "hi", 0), role |-> role, timestamp |-> id]

SeedConv(id, msgs) ==
    [id |-> id, title |-> TitleFor(NoInitialMessage), messages |-> msgs,
     createdAt |-> id, updatedAt |-> id]

\* newest first, as createConversation leaves them
SeedLists ==
    LET c1 == SeedConv(1, <<SeedMessage(1, "user"), SeedMessage(2, "assistant")>>)
        c2 == SeedConv(2, <<SeedMessage(3, "user")>>)
        c3 == SeedConv(3, <<>>)
    IN {<<>>, <<c1>>, <<c2, c1>>, <<c3, c2, c1>>}

InitialMessages ==
    {Hi, Str(0, "TITLE50", 0), Str(0, "TITLE51", 0), Str(0, "TITLE60", 0),
     NoInitialMessage}

NewTitles == {Str(1, "T", 1), Blank, Str(0, "TITLE100", 0), Str(0, "TITLE101", 0)}

StoreIds == 1..(MaxStoreConvs + 1)

Call(op, id, mid, given, text, quota, o, fetches) ==
    [op |-> op, id |-> id, mid |-> mid, given |-> given, text |-> text,
     quota |-> quota, mem |-> conversations, st |-> storage, err |-> error,
     at |-> now, threw |-> o.threw, conv |-> o.conv, fetches |-> fetches,
     prev |-> last.op]

StoreInit ==
    /\ \E list \in SeedLists :
          /\ conversations = list
          /\ storage = IF list = <<>> THEN Absent ELSE saveConversations(list)
          /\ nextConv = Len(list) + 1
    /\ isLoading = FALSE
    /\ error = NoError
    /\ selectedId = NoId
    /\ ref = NoId
    /\ calls = <<>>
    /\ now = MaxStoreConvs + 1
    /\ nextId = MaxStoreConvs + 1
    /\ ops = 0
    /\ deleted = {}
    /\ ParkedPure
    /\ ParkedStore
    /\ ParkedSimple

\* the caller-visible effect of one awaited call
Called(o, c) ==
    /\ ops < MaxStoreOps
    /\ ops' = ops + 1
    /\ conversations' = o.mem
    /\ storage' = o.st
    /\ error' = o.err
    /\ now' = now + 1
    /\ last' = c
    /\ UNCHANGED <<isLoading, selectedId, ref, calls, deleted, payload, loaded,
                   resaved, ppc, simple>>

\* createConversation() or createConversation(initialMessage)
CallCreateConversation(given, initialMessage, quota) ==
    LET o == tryCreateConversation(IF given THEN initialMessage ELSE NoInitialMessage,
                                   nextConv, conversations, storage, now, error, quota)
    IN /\ given \/ initialMessage = NoInitialMessage
       /\ Called(o, Call("createConversation", nextConv, NoId, given, initialMessage,
                         quota, o, 0))
       /\ nextConv' = nextConv + 1
       /\ UNCHANGED nextId

\* updateConversation(updatedConv): a conversation of the list with one more
\* message, or a conversation the list does not hold
CallUpdateConversation(id, quota) ==
    LET held == Find(conversations, id)
        message == [id |-> nextId, content |-> Str(0, "hi", 0), role |-> "user",
                    timestamp |-> now]
        updatedConv == IF held # NoConv
                       THEN [held EXCEPT !.messages = Append(@, message),
                                         !.updatedAt = now]
                       ELSE [id |-> id, title |-> TitleFor(NoInitialMessage),
                             messages |-> <<message>>, createdAt |-> now,
                             updatedAt |-> now]
        o == tryUpdateConversation(updatedConv, conversations, conversations, storage,
                                   error, quota)
    IN /\ Called(o, Call("updateConversation", id, nextId, TRUE, NoInitialMessage,
                         quota, [o EXCEPT !.conv = updatedConv], 0))
       /\ nextId' = nextId + 1
       /\ UNCHANGED nextConv

CallUpdateConversationTitle(id, title, quota) ==
    LET o == tryUpdateConversationTitle(id, title, conversations, storage, now, error,
                                        quota)
    IN /\ Called(o, Call("updateConversationTitle", id, NoId, TRUE, title, quota, o, 0))
       /\ UNCHANGED <<nextId, nextConv>>

CallDeleteConversation(id, quota) ==
    LET o == tryDeleteConversation(id, conversations, storage, error, quota)
    IN /\ Called(o, Call("deleteConversation", id, NoId, TRUE, NoInitialMessage,
                         quota, o, 0))
       /\ UNCHANGED <<nextId, nextConv>>

CallClearHistory ==
    LET o == clearHistory(error)
    IN /\ Called(o, Call("clearHistory", NoId, NoId, FALSE, NoInitialMessage, FALSE,
                         o, 0))
       /\ UNCHANGED <<nextId, nextConv>>

CallRemoveMessage(conversationId, messageId, quota) ==
    LET o == tryRemoveMessage(conversationId, messageId, conversations, storage, now,
                              error, quota)
    IN /\ Called(o, Call("removeMessage", conversationId, messageId, TRUE,
                         NoInitialMessage, quota, o, 0))
       /\ UNCHANGED <<nextId, nextConv>>

StoreNext ==
    \/ \E given \in BOOLEAN, m \in InitialMessages, quota \in BOOLEAN :
          CallCreateConversation(given, m, quota)
    \/ \E id \in StoreIds, quota \in BOOLEAN : CallUpdateConversation(id, quota)
    \/ \E id \in StoreIds, title \in NewTitles, quota \in BOOLEAN :
          CallUpdateConversationTitle(id, title, quota)
    \/ \E id \in StoreIds, quota \in BOOLEAN : CallDeleteConversation(id, quota)
    \/ CallClearHistory
    \/ \E id \in StoreIds, mid \in StoreIds, quota \in BOOLEAN :
          CallRemoveMessage(id, mid, quota)

StoreSpec == StoreInit /\ [][StoreNext]_vars

(***************************************************************************)
(* ChatApiService alone, over a localStorage entry that earlier calls      *)
(* left behind; it has no in-memory list and no error state.               *)
(***************************************************************************)
ApiInit ==
    /\ \E list \in SeedLists :
          /\ storage = IF list = <<>> THEN Absent ELSE saveConversations(list)
          /\ nextConv = Len(list) + 1
    /\ conversations = <<>>
    /\ isLoading = FALSE
    /\ error = NoError
    /\ selectedId = NoId
    /\ ref = NoId
    /\ calls = <<>>
    /\ now = MaxStoreConvs + 1
    /\ nextId = MaxStoreConvs + 1
    /\ ops = 0
    /\ deleted = {}
    /\ ParkedPure
    /\ ParkedStore
    /\ ParkedSimple

ApiCreateConversation(given, initialMessage, response, ok, quota) ==
    LET o == ChatApiService_createConversation(
                 IF given THEN initialMessage ELSE NoInitialMessage,
                 nextConv, response, nextId, storage, now, ok, quota)
    IN /\ given \/ (initialMessage = NoInitialMessage /\ ok)
       /\ ops < MaxStoreOps
       /\ ops' = ops + 1
       /\ storage' = o.st
       /\ nextId' = o.nid
       /\ nextConv' = nextConv + 1
       /\ now' = now + 1
       /\ last' = Call("ChatApiService.createConversation", nextConv, NoId, given,
                       initialMessage, quota, o, o.fetches)
       /\ UNCHANGED <<conversations, isLoading, error, selectedId, ref, calls,
                      deleted, payload, loaded, resaved, ppc, simple>>

ApiNext ==
    \E given \in BOOLEAN, m \in InitialMessages, response \in Replies,
       ok \in BOOLEAN, quota \in BOOLEAN :
        ApiCreateConversation(given, m, response, ok, quota)

ApiSpec == ApiInit /\ [][ApiNext]_vars

(***************************************************************************)
(* The application driven through its input bar.  App renders ChatWindow,  *)
(* and with it InputBar, only while showChatWindow holds, and hands it     *)
(* isLoading = storeLoading || isSending; InputBar.handleSend is the only  *)
(* caller of handleSendMessage.  Every other handler is reached from the   *)
(* sidebar as before.                                                      *)
(***************************************************************************)
showChatWindow == SelectedConversation(selectedId, conversations) # NoConv

\* a core with a run of inner whitespace, and what the run collapses to
Spaced == "a  b"
Collapsed == "a b"

\* input.trim().replace(/\s+/g, ' ')
sanitizeInput(input) ==
    LET trimmed == Trim(input)
    IN Str(0, IF trimmed.core = Spaced THEN Collapsed ELSE trimmed.core, 0)

\* an input bar whose Enter key does not look at isLoading
handleSendIgnoresLoading(input, loading) ==
    LET sanitized == sanitizeInput(input)
    IN [calls |-> validateMessage(sanitized), content |-> sanitized]

\* InputBar.handleSend: whether onSend is called, and with what
handleSend(input, loading) ==
    LET sanitized == sanitizeInput(input)
    IN [calls |-> validateMessage(sanitized) /\ ~loading, content |-> sanitized]

Typed == Inputs \cup {Str(1, Spaced, 0)}

\* the send button is clicked, or Enter is pressed, with `input` typed
InputBarSend(input) ==
    /\ showChatWindow
    /\ LET h == handleSend(input, isLoading \/ isPending)
       IN /\ h.calls
          /\ handleSendMessage(h.content, FALSE)

\* the page opens on a store that is absent, or that an earlier session left
\* with one conversation, newly created and still empty
UIInit ==
    /\ conversations = <<>>
    /\ isLoading = TRUE
    /\ error = NoError
    /\ \E left \in {<<>>, <<SeedConv(1, <<>>)>>} :
          /\ storage = IF left = <<>> THEN Absent ELSE saveConversations(left)
          /\ nextConv = Len(left) + 1
          /\ now = Len(left) + 1
    /\ selectedId = NoId
    /\ ref = NoId
    /\ calls = <<>>
    /\ nextId = 1
    /\ ops = 0
    /\ deleted = {}
    /\ ParkedPure
    /\ ParkedStore
    /\ ParkedSimple

UINext ==
    \/ Load
    \/ Reload
    \/ handleNewChat
    \/ \E id \in 1..MaxConvs : handleSelectConversation(id)
    \/ \E id \in 1..MaxConvs, t \in Titles : handleRenameConversation(id, t)
    \/ \E id \in 1..MaxConvs : handleDeleteConversation(id)
    \/ handleClearHistory
    \/ \E input \in Typed : InputBarSend(input)
    \/ \E k \in 1..MaxSends, ok \in BOOLEAN, response \in Replies : AIResolve(k, ok, response)
    \/ \E k \in 1..MaxSends : Retry(k)

UISpec == UIInit /\ [][UINext]_vars

(***************************************************************************)
(* useSimpleMessageSending alone: the hook without React Query.  Its       *)
(* sendMessage validates, hands the user message to onMessageAdded, awaits *)
(* the fetch, and hands over the reply or sets the error; finally it       *)
(* clears isPending.  Nothing keeps a caller from calling it again while   *)
(* a fetch is outstanding.                                                 *)
(***************************************************************************)
InvalidMessage == "Message content is invalid or too long"

\* the ways the request can fail: a response that is not ok, with or without
\* a detail in its body, a fetch that rejects, a body that is not JSON
Failures ==
    {[kind |-> "http", detail |-> "Server error", status |-> 500,
      statusText |-> "Internal Server Error", message |-> ""],
     [kind |-> "http", detail |-> "", status |-> 404, statusText |-> "Not Found",
      message |-> ""],
     [kind |-> "network", detail |-> "", status |-> 0, statusText |-> "",
      message |-> "Network error"],
     [kind |-> "badJson", detail |-> "", status |-> 200, statusText |-> "OK",
      message |-> "Invalid JSON"]}

\* the message of the error the try block throws
FailureMessage(f) ==
    IF f.kind = "http"
    THEN IF f.detail # "" THEN f.detail
         ELSE "HTTP " \o ToString(f.status) \o ": " \o f.statusText
    ELSE f.message

SimpleSend(content, valid, pc, outcome, emitted, failure, errAfter, pendingAfter) ==
    [content |-> content, valid |-> valid, pc |-> pc, outcome |-> outcome,
     emitted |-> emitted, failure |-> failure, errAfter |-> errAfter,
     pendingAfter |-> pendingAfter]

\* sendMessage up to its await
simpleStart(s, content) ==
    LET userMessage == [id |-> s.nid, content |-> Trim(content), role |-> "user",
                        timestamp |-> s.now]
    IN IF ~validateMessage(content)
       THEN [s EXCEPT !.error = InvalidMessage,
                      !.now = @ + 1,
                      !.sends = Append(@, SimpleSend(content, FALSE, "done", "invalid",
                                                     <<>>, NoError, InvalidMessage,
                                                     s.isPending))]
       ELSE [s EXCEPT !.isPending = TRUE,
                      !.error = NoError,
                      !.added = Append(@, userMessage),
                      !.nid = @ + 1,
                      !.now = @ + 1,
                      !.sends = Append(@, SimpleSend(content, TRUE, "fetching",
                                                     "pending", <<userMessage>>,
                                                     NoError, NoError, TRUE))]

\* the rest of the try block after a good response, then finally
simpleSucceed(s, k, response) ==
    LET aiMessage == [id |-> s.nid, content |-> response, role |-> "assistant",
                      timestamp |-> s.now]
    IN [s EXCEPT !.isPending = FALSE,
                 !.added = Append(@, aiMessage),
                 !.nid = @ + 1,
                 !.now = @ + 1,
                 !.sends[k] = [@ EXCEPT !.pc = "done", !.outcome = "success",
                                        !.emitted = Append(@, aiMessage),
                                        !.errAfter = s.error,
                                        !.pendingAfter = FALSE]]

\* a failure path that forgets the finally block
simpleFailStaysPending(s, k, f) ==
    [s EXCEPT !.error = FailureMessage(f),
              !.now = @ + 1,
              !.sends[k] = [@ EXCEPT !.pc = "done", !.outcome = "error",
                                     !.failure = FailureMessage(f),
                                     !.errAfter = FailureMessage(f),
                                     !.pendingAfter = s.isPending]]

\* the catch block, then finally
simpleFail(s, k, f) ==
    [s EXCEPT !.isPending = FALSE,
              !.error = FailureMessage(f),
              !.now = @ + 1,
              !.sends[k] = [@ EXCEPT !.pc = "done", !.outcome = "error",
                                     !.failure = FailureMessage(f),
                                     !.errAfter = FailureMessage(f),
                                     !.pendingAfter = FALSE]]

SimpleInit ==
    /\ ParkedMain
    /\ ParkedPure
    /\ ParkedStore
    /\ ParkedSimple

SimpleStep(s) ==
    /\ simple' = s
    /\ UNCHANGED mainVars
    /\ UNCHANGED <<payload, loaded, resaved, ppc, last>>

SimpleSendMessage(content) ==
    /\ Len(simple.sends) < MaxSends
    /\ SimpleStep(simpleStart(simple, content))

SimpleFetchSucceeds(k, response) ==
    /\ k \in 1..Len(simple.sends)
    /\ simple.sends[k].pc = "fetching"
    /\ SimpleStep(simpleSucceed(simple, k, response))

SimpleFetchFails(k, f) ==
    /\ k \in 1..Len(simple.sends)
    /\ simple.sends[k].pc = "fetching"
    /\ SimpleStep(simpleFail(simple, k, f))

\* reset()
SimpleReset ==
    /\ simple.error # NoError
    /\ SimpleStep([simple EXCEPT !.error = NoError])

SimpleNext ==
    \/ \E content \in Inputs : SimpleSendMessage(content)
    \/ \E k \in 1..MaxSends, response \in Replies : SimpleFetchSucceeds(k, response)
    \/ \E k \in 1..MaxSends, f \in Failures : SimpleFetchFails(k, f)
    \/ SimpleReset

SimpleSpec == SimpleInit /\ [][SimpleNext]_vars

(***************************************************************************)
(* Properties.                                                             *)
(***************************************************************************)
Settled(c) == c.pc = "done"

\* the step is one of call k of the next state: its start, its retry or its end
StepOf(k) ==
    \/ k > Len(calls)
    \/ /\ k <= Len(calls)
       /\ Pending(calls[k])
       /\ calls'[k].pc # "dead"
       /\ \/ calls'[k].pc # calls[k].pc
          \/ calls'[k].fetches # calls[k].fetches

Settles(k) ==
    /\ k <= Len(calls)
    /\ Pending(calls[k])
    /\ calls'[k].pc = "done"

MessagesOf(list, id) == Find(list, id).messages

SameMessages(before, after) ==
    \A id \in ConvIds(before) \cup ConvIds(after) :
        MessagesOf(before, id) = MessagesOf(after, id)

\* C1: a valid send to a selected conversation whose AI call fails, with no
\* other operation running meanwhile, leaves the conversation's messages, in
\* memory and in the store, exactly as they were before the call.
C1_RollbackCompleteness ==
    \A k \in 1..Len(calls) :
        LET c == calls[k]
        IN (Settled(c) /\ c.outcome = "error" /\ c.valid /\ c.hadSel /\ ~c.interfered)
           => (c.post = c.pre /\ c.postStored = c.pre)

\* C2: a send to a selected conversation whose AI call succeeds, with no other
\* operation running meanwhile, leaves the messages before the call followed by
\* exactly the user message (trimmed input) and the assistant message (reply).
C2_SuccessAppendOrder ==
    \A k \in 1..Len(calls) :
        LET c == calls[k]
            n == Len(c.pre)
        IN (Settled(c) /\ c.outcome = "success" /\ c.hadSel /\ ~c.interfered)
           => /\ Len(c.post) = n + 2
              /\ SubSeq(c.post, 1, n) = c.pre
              /\ c.post[n + 1].role = "user"
              /\ c.post[n + 1].content = Trim(c.content)
              /\ c.post[n + 2].role = "assistant"
              /\ c.post[n + 2].content = c.reply
              /\ Map(c.postStored, LAMBDA m : m.id) = Map(c.post, LAMBDA m : m.id)

\* C3: no step of a send whose content fails validation fetches, creates an
\* optimistic message or changes the messages of any conversation, and the send
\* ends in the error state.
C3_ValidationShortCircuit ==
    [][\A k \in 1..Len(calls') :
          (StepOf(k) /\ ~calls'[k].valid)
          => /\ calls'[k].fetches = 0
             /\ calls'[k].mine = <<>>
             /\ (calls'[k].pc = "done" => calls'[k].outcome = "error")
             /\ SameMessages(conversations, conversations')
             /\ SameMessages(Stored(storage), Stored(storage'))]_vars

\* C4: when a send that overlapped another send ends in failure, the messages
\* its rollback removes are messages this send created, and none of the
\* messages this send created is left in a conversation.
C4_RollbackTargetsOwnMessage ==
    [][\A k \in 1..Len(calls) :
          (Settles(k) /\ calls'[k].outcome = "error" /\ calls[k].overlapped)
          => /\ (AllMsgIds(conversations) \ AllMsgIds(conversations'))
                    \subseteq MsgIdsOf(Map(calls[k].mine, LAMBDA x : [id |-> x]))
             /\ \A i \in 1..Len(calls[k].mine) :
                    calls[k].mine[i] \notin AllMsgIds(conversations')]_vars

\* C5: whenever the store is loaded, reading the durable store yields exactly
\* the in-memory conversation list.
C5_MemoryStorageAgreement ==
    ~isLoading => Stored(storage) = conversations

\* the conversations of list that hold message mid
HoldersOf(list, mid) ==
    {id \in ConvIds(list) : mid \in MsgIdsOf(MessagesOf(list, id))}

\* C6: when a send that overlapped no other send ends, the conversation that
\* holds its optimistic user message receives the reply (success) or loses the
\* optimistic message (failure), whatever the selection has become meanwhile.
C6_BoundToTarget ==
    [][\A k \in 1..Len(calls) :
          (/\ Settles(k)
           /\ ~calls[k].overlapped
           /\ calls[k].mine # <<>>)
          => LET own == calls[k].mine[Len(calls[k].mine)]
             IN \A id \in HoldersOf(conversations, own) :
                   /\ (calls'[k].outcome = "success"
                       => calls'[k].aiMsg \in MsgIdsOf(MessagesOf(conversations', id)))
                   /\ (calls'[k].outcome = "error"
                       => own \notin MsgIdsOf(MessagesOf(conversations', id)))]_vars

\* C7: the mount effect ends the loading state, and when the store entry is
\* absent or cannot be read as a conversation list the list is empty and no
\* error is raised.
C7_LoadNeverThrows ==
    [][isLoading
       => /\ ~isLoading'
          /\ (storage.kind # "json" => (conversations' = <<>> /\ error' = NoError))]_vars

C7_Witness ==
    /\ ~isLoading
    /\ storage.kind = "notJson"
    /\ conversations = <<>>
    /\ error = NoError

\* the (role, content, instant) of a stored message
Triple(m) == <<m.role, m.content, ParseDate(m.timestamp)>>

\* the indices of the messages that are the first of their triple
FirstOfTriple(ms) ==
    {i \in 1..Len(ms) : \A j \in 1..(i - 1) : Triple(ms[j]) # Triple(ms[i])}

\* the indices of the messages that are the first of their dedup key
FirstOfKey(ms) ==
    {i \in 1..Len(ms) :
        \A j \in 1..(i - 1) :
            MessageKey(ReviveMessage(ms[j])) # MessageKey(ReviveMessage(ms[i]))}

\* out is ms restricted to the indices I, in order, each timestamp parsed
KeepsExactly(out, ms, I) ==
    /\ Len(out) = Cardinality(I)
    /\ \A i \in I : out[Cardinality({j \in I : j <= i})] = ReviveMessage(ms[i])

\* C8: every conversation read from a persisted payload holds no two messages
\* with the same (role, content, instant); the messages kept are the first of
\* each triple, in stored order.
C8_DedupOnRead ==
    ppc \in {"loaded", "saved", "svcLoaded", "svcSaved"}
    => /\ Len(loaded) = Len(payload.value)
       /\ \A c \in 1..Len(loaded) :
             /\ \A i, j \in 1..Len(loaded[c].messages) :
                    (/\ loaded[c].messages[i].role = loaded[c].messages[j].role
                     /\ loaded[c].messages[i].content = loaded[c].messages[j].content
                     /\ loaded[c].messages[i].timestamp = loaded[c].messages[j].timestamp)
                    => i = j
             /\ KeepsExactly(loaded[c].messages, payload.value[c].messages,
                             FirstOfTriple(payload.value[c].messages))

\* the payload has no timestamp before the epoch
AfterEpoch(x) ==
    \A c \in 1..Len(x) : \A i \in 1..Len(x[c].messages) :
        ParseDate(x[c].messages[i].timestamp) >= 0

\* C8 restricted: LocalStorageService, for payloads with no timestamp before
\* the epoch, keeps exactly the first message of each triple, in stored order.
C8_DedupOnReadAfterEpoch ==
    (ppc \in {"loaded", "saved"} /\ AfterEpoch(payload.value))
    => \A c \in 1..Len(loaded) :
           KeepsExactly(loaded[c].messages, payload.value[c].messages,
                        FirstOfTriple(payload.value[c].messages))

NoDuplicateIds(list) ==
    \A i \in 1..Len(list) :
        Cardinality(MsgIdsOf(list[i].messages)) = Len(list[i].messages)

\* C9: in every state no conversation, in memory or read from the store, holds
\* two messages with the same id.
C9_MessageIdUniqueness ==
    NoDuplicateIds(conversations) /\ NoDuplicateIds(Stored(storage))

C9_Witness ==
    /\ ~isLoading
    /\ \E k \in 1..Len(calls) : calls[k].pc = "dead"
    /\ \E k \in 1..Len(calls) : Settled(calls[k]) /\ calls[k].outcome = "error"
    /\ \E i \in 1..Len(conversations) : Len(conversations[i].messages) >= 2

SameStoredMessage(a, b) ==
    /\ a.id = b.id
    /\ a.content = b.content
    /\ a.role = b.role
    /\ ParseDate(a.timestamp) = ParseDate(b.timestamp)

SameStoredConversation(a, b) ==
    /\ a.id = b.id
    /\ a.title = b.title
    /\ ParseDate(a.createdAt) = ParseDate(b.createdAt)
    /\ ParseDate(a.updatedAt) = ParseDate(b.updatedAt)
    /\ Len(a.messages) = Len(b.messages)
    /\ \A i \in 1..Len(a.messages) : SameStoredMessage(a.messages[i], b.messages[i])

ValueEqual(x, y) ==
    /\ Len(x) = Len(y)
    /\ \A i \in 1..Len(x) : SameStoredConversation(x[i], y[i])

HasDuplicateKey(x) ==
    \E c \in 1..Len(x) : FirstOfKey(x[c].messages) # 1..Len(x[c].messages)

Redo(c) ==
    CASE c.op = "createConversation" ->
           tryCreateConversation(IF c.given THEN c.text ELSE NoInitialMessage, c.id,
                                 c.mem, c.st, c.at, c.err, FALSE)
      [] c.op = "updateConversation" ->
           tryUpdateConversation(c.conv, c.mem, c.mem, c.st, c.err, FALSE)
      [] c.op = "updateConversationTitle" ->
           tryUpdateConversationTitle(c.id, c.text, c.mem, c.st, c.at, c.err, FALSE)
      [] c.op = "deleteConversation" ->
           tryDeleteConversation(c.id, c.mem, c.st, c.err, FALSE)
      [] c.op = "removeMessage" ->
           tryRemoveMessage(c.id, c.mid, c.mem, c.st, c.at, c.err, FALSE)
      [] OTHER -> clearHistory(c.err)

\* the call reached a write, and the write failed
WriteFailed(c) ==
    /\ c.quota
    /\ c.op \in {"createConversation", "updateConversation", "deleteConversation",
                 "updateConversationTitle", "removeMessage"}
    /\ (c.op \in {"updateConversationTitle", "removeMessage"}
          => Find(Stored(c.st), c.id) # NoConv)

\* C11: when the durable-store write of a mutating call fails, the failure is
\* reported in the error state, the call does not reject, and the in-memory
\* list holds the change the call was making.
C11_WriteFailureKeepsChange ==
    WriteFailed(last) =>
        /\ error = WriteError
        /\ ~last.threw
        /\ conversations = Redo(last).mem

\* what the store does on a failed write: it reports the failure
WriteFailureReported == WriteFailed(last) => error = WriteError

\* ... and it leaves the list and the store as they were
WriteFailureSkipsChange ==
    WriteFailed(last) => conversations = last.mem /\ storage = last.st

\* the id names no conversation, in memory or in the store
AbsentId(c) == c.id \notin ConvIds(c.mem) /\ c.id \notin ConvIds(Stored(c.st))

\* C12: updateConversationTitle with an id that matches no conversation ends
\* with the error 'Conversation not found' reported, and leaves the in-memory
\* list and the durable store as they were.
C12_RenameUnknownId ==
    (last.op = "updateConversationTitle" /\ AbsentId(last)) =>
        /\ error = "Conversation not found"
        /\ conversations = last.mem
        /\ storage = last.st

C12_Witness ==
    /\ last.op = "updateConversationTitle"
    /\ AbsentId(last)
    /\ last.mem # <<>>
    /\ last.err = NoError
    /\ error = "Conversation not found"

\* the title a rename stores: the trimmed text, whole
TrimmedTitle(title) ==
    [kind |-> "text", text |-> Trim(title), keep |-> Length(Trim(title))]

\* C13: updateConversationTitle for an existing id stores the trimmed title;
\* a title that is empty after trimming or longer than 100 characters is
\* refused with an error, and the conversation's title, its updatedAt and the
\* durable store stay as they were.
C13_RenameValidatesTitle ==
    (last.op = "updateConversationTitle" /\ ~AbsentId(last) /\ ~last.quota) =>
        IF validateConversationTitle(last.text)
        THEN Find(conversations, last.id).title = TrimmedTitle(last.text)
        ELSE /\ error # NoError
             /\ Find(conversations, last.id).title = Find(last.mem, last.id).title
             /\ Find(conversations, last.id).updatedAt = Find(last.mem, last.id).updatedAt
             /\ storage = last.st

\* what the store does: any title is stored trimmed, valid or not
RenameStoresAnyTitle ==
    (last.op = "updateConversationTitle" /\ ~AbsentId(last) /\ ~last.quota) =>
        /\ Find(conversations, last.id).title = TrimmedTitle(last.text)
        /\ Find(Stored(storage), last.id).title = TrimmedTitle(last.text)
        /\ Find(conversations, last.id).updatedAt = last.at
        /\ error = last.err

Holds(list, c) == \E i \in 1..Len(list) : list[i] = c

\* C14: updateConversation(conversation) replaces the in-memory conversation
\* of the same id, or inserts the conversation when the list has none of that
\* id, and the durable store then holds the resulting list.
C14_UpdateReplacesOrInserts ==
    (last.op = "updateConversation" /\ ~last.quota) =>
        /\ Holds(conversations, last.conv)
        /\ Stored(storage) = conversations

\* what the store does: it replaces, and with an unknown id it changes nothing
UpdateReplacesOnly ==
    (last.op = "updateConversation" /\ ~last.quota) =>
        /\ conversations = Replace(last.mem, last.conv)
        /\ Stored(storage) = conversations
        /\ (AbsentId(last) => conversations = last.mem)

\* list without its i-th element
Without(list, i) == SubSeq(list, 1, i - 1) \o SubSeq(list, i + 1, Len(list))

\* C15: deleteConversation(id) removes exactly the conversation of that id
\* from the in-memory list and from the persisted list, the others keeping
\* their order; with an id no conversation has, the list is unchanged and no
\* error is raised.
C15_DeleteRemovesExactlyOne ==
    (last.op = "deleteConversation" /\ ~last.quota) =>
        /\ \A i \in 1..Len(last.mem) :
              last.mem[i].id = last.id => conversations = Without(last.mem, i)
        /\ \A i \in 1..Len(Stored(last.st)) :
              Stored(last.st)[i].id = last.id
                  => Stored(storage) = Without(Stored(last.st), i)
        /\ (AbsentId(last) => /\ conversations = last.mem
                              /\ Stored(storage) = Stored(last.st))
        /\ error = last.err
        /\ ~last.threw

\* the middle one of three conversations was deleted
C15_Witness ==
    /\ last.op = "deleteConversation"
    /\ ~last.quota
    /\ Len(last.mem) = 3
    /\ last.mem[2].id = last.id
    /\ Len(conversations) = 2
    /\ Len(Stored(storage)) = 2

\* a delete with an unknown id on a list that is not empty
C15_WitnessUnknownId ==
    /\ last.op = "deleteConversation"
    /\ ~last.quota
    /\ AbsentId(last)
    /\ conversations # <<>>

\* the message named by the call is in the conversation named by the call
HoldsMessage(c) ==
    ~AbsentId(c) /\ c.mid \in MsgIdsOf(Find(c.mem, c.id).messages)

\* C16: removeMessage(conversationId, messageId) removes exactly that message
\* from that conversation, the other messages keeping their order, and
\* persists; when the conversation id or the message id is absent, the
\* in-memory list and the durable store, updatedAt included, are unchanged.
C16_RemoveMessageFrame ==
    (last.op = "removeMessage" /\ ~last.quota) =>
        IF HoldsMessage(last)
        THEN /\ \A i \in 1..Len(Find(last.mem, last.id).messages) :
                   Find(last.mem, last.id).messages[i].id = last.mid =>
                       Find(conversations, last.id).messages
                           = Without(Find(last.mem, last.id).messages, i)
             /\ \A j \in 1..Len(conversations) :
                   conversations[j].id # last.id => conversations[j] = last.mem[j]
             /\ Stored(storage) = conversations
        ELSE /\ conversations = last.mem
             /\ Stored(storage) = Stored(last.st)

\* what the store does with a message id the conversation does not hold: the
\* messages stay, the conversation's updatedAt is refreshed and saved
RemoveUnknownMessageTouches ==
    (last.op = "removeMessage" /\ ~last.quota /\ ~AbsentId(last)) =>
        /\ Find(conversations, last.id).updatedAt = last.at
        /\ Find(Stored(storage), last.id).updatedAt = last.at
        /\ (~HoldsMessage(last) =>
               Find(conversations, last.id).messages = Find(last.mem, last.id).messages)

\* ... and with a conversation id the list does not hold: nothing
RemoveUnknownConversationNoOp ==
    (last.op = "removeMessage" /\ AbsentId(last)) =>
        conversations = last.mem /\ storage = last.st /\ error = last.err

\* C17: clearHistory() empties the in-memory list and removes the entry from
\* the durable store instead of writing an empty list; a second call right
\* after the first finds the list empty, leaves it empty and raises no error.
C17_IdempotentClear ==
    last.op = "clearHistory" =>
        /\ conversations = <<>>
        /\ storage = Absent
        /\ error = last.err
        /\ ~last.threw
        /\ (last.prev = "clearHistory" => last.mem = <<>> /\ last.st = Absent)

\* two calls in a row, the first on a list that held conversations
C17_Witness ==
    /\ last.op = "clearHistory"
    /\ last.prev = "clearHistory"
    /\ nextConv > 1
    /\ conversations = <<>>
    /\ storage = Absent

\* number of characters of a title
TitleLength(title) ==
    CASE title.kind = "default" -> DefaultTitleLength
      [] title.kind = "truncated" -> title.keep + EllipsisLength
      [] OTHER -> title.keep

IsDefaultTitle(title) == title.kind = "default"

\* the title is the message, whole and unchanged
IsWholeMessage(title, m) ==
    title.kind = "text" /\ title.text = m /\ title.keep = Length(m)

\* the title is 50 characters: the first 47 of the message, then the ellipsis
IsCutMessage(title, m) ==
    /\ title.kind = "truncated"
    /\ title.text = m
    /\ title.keep = 47
    /\ TitleLength(title) = 50

Created(c) == c.op = "createConversation" /\ ~c.quota

\* C18, as stated: createConversation without an argument gives the title
\* "New Conversation" and no messages; with a message of at most 50 characters
\* the title is the message unchanged; with a longer message the title is 50
\* characters long, the first 47 characters of the message and the ellipsis.
C18_TitleRule ==
    Created(last) =>
        /\ last.conv.messages = <<>>
        /\ Find(conversations, last.id) = last.conv
        /\ IF ~last.given THEN IsDefaultTitle(last.conv.title)
           ELSE IF Length(last.text) <= 50 THEN IsWholeMessage(last.conv.title, last.text)
           ELSE IsCutMessage(last.conv.title, last.text)

\* C18, amended: the same, with the empty message treated as no message: it
\* gives the title "New Conversation" too.
C18_TitleRuleNonEmpty ==
    Created(last) =>
        /\ last.conv.messages = <<>>
        /\ Find(conversations, last.id) = last.conv
        /\ IF ~last.given \/ Length(last.text) = 0 THEN IsDefaultTitle(last.conv.title)
           ELSE IF Length(last.text) <= 50 THEN IsWholeMessage(last.conv.title, last.text)
           ELSE IsCutMessage(last.conv.title, last.text)

\* messages of 50 and of 51 characters were both given, one after the other
C18_Witness ==
    /\ Created(last)
    /\ last.given
    /\ Length(last.text) = 51
    /\ IsCutMessage(last.conv.title, last.text)
    /\ \E i \in 1..Len(conversations) :
          /\ Length(conversations[i].title.text) = 50
          /\ IsWholeMessage(conversations[i].title, conversations[i].title.text)

(***************************************************************************)
(* Properties of creation, for the store and for ChatApiService.           *)
(***************************************************************************)
\* ids are handed out in creation order, so newest first is largest id first
NewestFirst(list) ==
    \A i, j \in 1..Len(list) : i < j => list[i].id > list[j].id

\* C19: createConversation inserts the new conversation at the front and
\* persists the whole list, so the in-memory list and the persisted list are
\* always ordered newest-created first.
C19_NewestFirst ==
    /\ NewestFirst(conversations)
    /\ NewestFirst(Stored(storage))
    /\ (last.op \in {"createConversation", "ChatApiService.createConversation"}
           /\ ~last.quota
         => Stored(storage)[1].id = last.id)

\* what ChatApiService.createConversation does: the new conversation is the
\* last one of the persisted list
ApiAppends ==
    (last.op = "ChatApiService.createConversation" /\ ~last.quota) =>
        Stored(storage)[Len(Stored(storage))].id = last.id

\* C20: createConversation never calls the AI backend, with or without an
\* initial message, and the conversation it returns has no messages.
C20_CreateNeverCallsAI ==
    last.op \in {"createConversation", "ChatApiService.createConversation"} =>
        /\ last.fetches = 0
        /\ ~last.threw => last.conv.messages = <<>>

\* what ChatApiService.createConversation does with an initial message: one
\* request to the backend, and the reply is in the conversation it returns
ApiCreateSends ==
    (last.op = "ChatApiService.createConversation" /\ last.given
     /\ Length(last.text) > 0) =>
        /\ last.fetches = 1
        /\ (~last.threw /\ ~last.quota) => Len(last.conv.messages) = 1

(***************************************************************************)
(* Properties of the hooks together.                                       *)
(***************************************************************************)
StampsOrdered(list) ==
    \A i \in 1..Len(list) : list[i].updatedAt >= list[i].createdAt

\* every conversation of the in-memory list whose record changes in the step
\* ends with an updatedAt not earlier than the one it had
StampsAdvance ==
    \A id \in ConvIds(conversations) \cap ConvIds(conversations') :
        Find(conversations', id) # Find(conversations, id)
            => Find(conversations', id).updatedAt >= Find(conversations, id).updatedAt

\* C21: every conversation, in memory and in the store, has updatedAt >=
\* createdAt in every reachable state, and every mutation of a conversation
\* (message append, message removal, title change) leaves its updatedAt not
\* earlier than it was.
C21_UpdatedAtMonotone ==
    /\ [](StampsOrdered(conversations) /\ StampsOrdered(Stored(storage)))
    /\ [][StampsAdvance]_vars

\* a conversation that was appended to and renamed after its creation
C21_Witness ==
    \E i \in 1..Len(conversations) :
        /\ conversations[i].updatedAt > conversations[i].createdAt
        /\ conversations[i].messages # <<>>
        /\ conversations[i].title.kind = "text"
        /\ conversations[i].title.text = Trim(Str(1, "T", 1))

\* C22: once a conversation was deleted, or the history cleared, no later
\* event makes a conversation of that id appear again, in the in-memory list
\* or in the durable store.
C22_DeletionIsTerminal ==
    \A id \in deleted :
        /\ id \notin ConvIds(conversations)
        /\ id \notin ConvIds(Stored(storage))

\* the part that holds: a deleted conversation never comes back into the
\* in-memory list while the page lives
DeletedStaysOutOfMemory ==
    [][isLoading' = isLoading =>
          \A id \in deleted : id \notin ConvIds(conversations) =>
                                  id \notin ConvIds(conversations')]_vars

NonePending == \A k \in 1..Len(calls) : ~Pending(calls[k])

\* C23: provided the AI call resolves, every send ends, in success or in
\* error; once no send is in flight isPending is false and the reference to
\* the message to roll back is cleared.  No send stays pending forever.
C23_SendTerminates ==
    /\ \A k \in 1..MaxSends :
          (k <= Len(calls) /\ Pending(calls[k]))
              ~> (k <= Len(calls) /\ ~Pending(calls[k]))
    /\ [](NonePending => (~isPending /\ ref = NoId))
    /\ [](\A k \in 1..Len(calls) :
             Settled(calls[k]) => calls[k].outcome \in {"success", "error"})

\* two sends were made and both have ended, one well and one badly
C23_Witness ==
    /\ Len(calls) = 2
    /\ calls[1].pc = "done" /\ calls[1].outcome = "error"
    /\ calls[2].pc = "done" /\ calls[2].outcome = "success"
    /\ ~isPending
    /\ ref = NoId

\* C24: a send whose content fails validation is never retried: its body runs
\* once, it never waits for a retry delay, and its error is reported at once.
C24_ValidationNotRetried ==
    \A k \in 1..Len(calls) :
        ~calls[k].valid => /\ calls[k].pc # "retryWait"
                           /\ calls[k].failureCount = 0

\* what happens: the invalid send waits for the retry delay, runs its body a
\* second time, and only then ends in error
InvalidSendEndsAfterRetry ==
    [][\A k \in 1..Len(calls) :
          (Settles(k) /\ ~calls[k].valid)
          => /\ calls[k].pc = "retryWait"
             /\ calls[k].failureCount = MutationRetry
             /\ calls'[k].outcome = "error"
             /\ calls'[k].fetches = 0]_vars

(***************************************************************************)
(* Properties of useSimpleMessageSending.                                  *)
(***************************************************************************)
\* C25: in useSimpleMessageSending, a send that passed validation and whose
\* AI call failed has handed exactly one message to onMessageAdded, the user
\* message with the trimmed content, and no assistant message; when it ends
\* the error is the failure's message and isPending is false.
C25_SimpleSendFailure ==
    \A k \in 1..Len(simple.sends) :
        LET c == simple.sends[k]
        IN (c.pc = "done" /\ c.valid /\ c.outcome = "error") =>
              /\ Len(c.emitted) = 1
              /\ c.emitted[1].role = "user"
              /\ c.emitted[1].content = Trim(c.content)
              /\ \A i \in 1..Len(simple.added) :
                    simple.added[i].role = "assistant" =>
                        \E j \in 1..Len(simple.sends) :
                            /\ j # k
                            /\ simple.sends[j].outcome = "success"
              /\ c.errAfter = c.failure
              /\ c.failure # NoError
              /\ ~c.pendingAfter

\* a send failed on a response without detail, and nothing else was sent
C25_Witness ==
    /\ Len(simple.sends) = 1
    /\ simple.sends[1].outcome = "error"
    /\ simple.error = "HTTP 404: Not Found"
    /\ ~simple.isPending
    /\ Len(simple.added) = 1
    /\ simple.added[1].content = Str(0, "hi", 0)

(***************************************************************************)
(* Properties of the input bar.                                            *)
(***************************************************************************)
InFlight == {k \in 1..Len(calls) : Pending(calls[k])}

OnSendInvoked == Len(calls') > Len(calls)

\* C26: driven through the input bar, onSend is never invoked while
\* isLoading (storeLoading || isSending) is true, so at most one send is in
\* flight; when it is invoked, the content is sanitized and passes
\* validateMessage.
C26_InputBarGate ==
    /\ [](Cardinality(InFlight) <= 1)
    /\ [][OnSendInvoked =>
            /\ ~(isLoading \/ isPending)
            /\ InFlight = {}
            /\ LET sent == calls'[Len(calls')].content
               IN /\ validateMessage(sent)
                  /\ sanitizeInput(sent) = sent
                  /\ sent.lead = 0 /\ sent.trail = 0 /\ sent.core # Spaced]_vars

\* a second send went out after the first had settled, with its inner
\* whitespace collapsed
C26_Witness ==
    /\ Len(calls) = 2
    /\ ~Pending(calls[1])
    /\ Pending(calls[2])
    /\ calls[2].content = Str(0, Collapsed, 0)
    /\ isPending

(***************************************************************************)
(* Properties of a send and its retry.                                     *)
(***************************************************************************)
\* the messages of `msgs` that call c created as optimistic user messages
OwnIn(c, msgs) == {i \in 1..Len(msgs) : \E j \in 1..Len(c.mine) : msgs[i].id = c.mine[j]}

\* C27: a send never has more than one optimistic user message of its own
\* in its conversation, in memory or in the store, while it runs or when it
\* has resolved, an automatic retry included; and it fetches at most once per
\* attempt.
C27_OneOptimisticMessage ==
    \A k \in 1..Len(calls) :
        LET c == calls[k]
        IN /\ Pending(c) =>
                /\ Cardinality(OwnIn(c, MessagesOf(conversations, c.target))) <= 1
                /\ Cardinality(OwnIn(c, MessagesOf(Stored(storage), c.target))) <= 1
                /\ c.fetches <= c.failureCount + 1
           /\ Settled(c) =>
                /\ Cardinality(OwnIn(c, c.post)) <= 1
                /\ Cardinality(OwnIn(c, c.postStored)) <= 1

\* a send that was retried and then succeeded, alone, ends with two user
\* messages of its own before the reply
RetriedSendKeepsBoth ==
    \E k \in 1..Len(calls) :
        LET c == calls[k]
        IN /\ Settled(c) /\ c.outcome = "success" /\ ~c.interfered
           /\ Cardinality(OwnIn(c, c.post)) = 2

(***************************************************************************)
(* Properties of a send with no conversation selected.                     *)
(***************************************************************************)
\* call c was made with nothing selected, ran alone and its AI call succeeded
CreatedAndAnswered(c) ==
    /\ Settled(c)
    /\ c.outcome = "success"
    /\ c.created # NoId
    /\ ~c.interfered

IsExchange(msgs, content, reply) ==
    /\ Len(msgs) = 2
    /\ msgs[1].role = "user"
    /\ msgs[1].content = Trim(content)
    /\ msgs[2].role = "assistant"
    /\ msgs[2].content = reply

\* C28: when handleSendMessage(content) is called with no conversation
\* selected and the AI call succeeds, a conversation titled from content
\* exists and is selected, and its messages are the user message (trimmed
\* content) followed by the assistant message (the reply).
C28_FirstSendKeepsUserMessage ==
    \A k \in 1..Len(calls) :
        LET c == calls[k]
            conv == Find(conversations, c.created)
        IN CreatedAndAnswered(c) =>
              /\ conv # NoConv
              /\ conv.title = TitleFor(c.content)
              /\ selectedId = c.created
              /\ IsExchange(conv.messages, c.content, c.reply)

\* the reply is the only message of the conversation the send created
FirstSendLosesUserMessage ==
    \E k \in 1..Len(calls) :
        LET c == calls[k]
            conv == Find(conversations, c.created)
        IN /\ CreatedAndAnswered(c)
           /\ c.failureCount = 0
           /\ Len(conv.messages) = 1
           /\ conv.messages[1].role = "assistant"

\* the send created its conversation and both messages are there
FirstSendKeepsBoth ==
    \E k \in 1..Len(calls) :
        LET c == calls[k]
            conv == Find(conversations, c.created)
        IN /\ CreatedAndAnswered(c)
           /\ conv.title = TitleFor(c.content)
           /\ selectedId = c.created
           /\ IsExchange(conv.messages, c.content, c.reply)

(***************************************************************************)
(* Frame of a send.                                                        *)
(***************************************************************************)
\* the conversations of list other than those in ids, in their order
Rest(list, ids) == SelectSeq(list, LAMBDA c : c.id \notin ids)

\* the conversation a send is to: the one selected when it started, or the
\* one it created
SentTo(c) == {c.target, c.created} \ {NoId}

\* C29: every step of a send to conversation C (its start with the
\* optimistic append, a retry, the reply append or the rollback) leaves the
\* other conversations as they were, in the in-memory list and in the store:
\* same conversations, same titles and messages, same order.
C29_SendFrame ==
    [][\A k \in 1..Len(calls') :
          (StepOf(k) /\ calls'[k].valid)
          => /\ Rest(conversations', SentTo(calls'[k])) = Rest(conversations, SentTo(calls'[k]))
             /\ Rest(Stored(storage'), SentTo(calls'[k]))
                  = Rest(Stored(storage), SentTo(calls'[k]))]_vars

\* the in-memory half alone, for a send that no selection change, rename,
\* deletion or other send accompanied
SendFrameInMemory ==
    [][\A k \in 1..Len(calls') :
          (StepOf(k) /\ calls'[k].valid /\ ~calls'[k].interfered)
          => Rest(conversations', SentTo(calls'[k])) = Rest(conversations, SentTo(calls'[k]))]_vars

(***************************************************************************)
(* Selection.                                                              *)
(***************************************************************************)
\* the conversations a step takes out of the in-memory list
Removed == ConvIds(conversations) \ ConvIds(conversations')

\* a deletion or a clearing of the history (a reload empties the list too,
\* and goes back to loading)
DeleteOrClearStep == Removed # {} /\ ~isLoading'

\* C30: showChatWindow is true exactly when selectedId names a conversation
\* of the list; a step that deletes the selected conversation or clears the
\* history leaves selectedId undefined, and a step that deletes another
\* conversation leaves selectedId as it was.
C30_SelectionInvariant ==
    /\ [](showChatWindow <=> (selectedId # NoId /\ selectedId \in ConvIds(conversations)))
    /\ [][DeleteOrClearStep =>
            /\ (selectedId \in Removed => selectedId' = NoId)
            /\ (conversations' = <<>> => selectedId' = NoId)
            /\ (selectedId \notin Removed => selectedId' = selectedId)]_vars

\* conversation 2 was created by New Chat, hence selected, and deleted while
\* conversation 1 stayed: nothing is selected and the chat window is hidden
C30_Witness ==
    /\ deleted = {2}
    /\ ConvIds(conversations) = {1}
    /\ ops = 2
    /\ ~isLoading
    /\ selectedId = NoId
    /\ ~showChatWindow

====
